---- MODULE Spec2Model ----
(***************************************************************************)
(* A model of run-clang-format.py: the wrapper that turns clang-format's   *)
(* XML replacement records into Xcode-style warnings, or applies the       *)
(* formatter's output to the files git reports as modified.                *)
(*                                                                         *)
(* Strings are sequences of tokens.  A character of a text is a one-token  *)
(* string: an ASCII character is itself (" ", "\n", "x"), a non-ASCII      *)
(* character is named by its code point ("U+00E9").  A literal fragment of *)
(* a format string is one token ("remove next ").                          *)
(***************************************************************************)
EXTENDS Integers, Sequences, FiniteSets, TLC

VARIABLES
    pc,                 \* position of the running script or function
    argv,               \* sys.argv[1:]
    installed,          \* shutil.which("clang-format") finds the tool
    config_dirs,        \* the directories that hold a .clang-format file
    disk,               \* absolute filename -> file content
    modified_files,     \* run_clang_format: modified_files_in_directory
    file_index,         \* run_clang_format: position of the for loop
    stdout,             \* the lines printed so far
    exit_status,        \* the process's exit status, -1 while running
    git_queried,        \* history: git status has been invoked
    formatter_runs,     \* history: clang-format invocations, per file
    absolute_filename,  \* run_clang_format_on_file: its argument
    file_string,        \* run_clang_format_on_file: the text read
    replacements,       \* run_clang_format_on_file: the parsed records
    rep_index,          \* run_clang_format_on_file: position of the loop
    reported,           \* history: what each printed warning was built from
    fn_args,            \* arguments of a function evaluated on its own
    fn_result           \* its result

vars == <<pc, argv, installed, config_dirs, disk, modified_files, file_index,
          stdout, exit_status, git_queried, formatter_runs, absolute_filename,
          file_string, replacements, rep_index, reported, fn_args, fn_result>>

runVars == <<argv, installed, config_dirs, disk, modified_files, file_index,
             exit_status, git_queried, formatter_runs>>

fileVars == <<absolute_filename, file_string, replacements, rep_index,
              stdout, reported>>

fnVars == <<fn_args, fn_result>>

-----------------------------------------------------------------------------
(* Bounds of the model. *)

\* longest enumerated text, in characters
MaxLen == 3
\* longest enumerated replaced range, in a pure call of build_warning_message
MaxMsgLength == 10
\* largest enumerated offset of a pure call of build_warning_message
MaxMsgOffset == 3
\* longest enumerated text of a checked file, in characters
MaxFileLen == 2
\* most replacement records clang-format reports for one file
MaxRecords == 2
\* most lines git status prints
MaxGitLines == 2

-----------------------------------------------------------------------------
(* Python's str, list and int operations. *)

Min(a, b) == IF a < b THEN a ELSE b

Max(a, b) == IF a > b THEN a ELSE b

\* len(bytes(character, 'utf8')): the UTF-8 width of one character
CharByteCount(character) ==
    CASE character = "U+00E9"  -> 2     \* e with acute accent
      [] character = "U+20AC"  -> 3     \* euro sign
      [] character = "U+1F600" -> 4     \* grinning face
      [] OTHER                 -> 1

\* s.startswith(prefix)
StartsWith(s, prefix) ==
    /\ Len(s) >= Len(prefix)
    /\ SubSeq(s, 1, Len(prefix)) = prefix

\* a slice bound as Python clamps it: negative counts from the end
SliceBound(k, n) ==
    IF k < 0 THEN Max(k + n, 0) ELSE Min(k, n)

\* s[a:b]
Slice(s, a, b) ==
    LET lo == SliceBound(a, Len(s))
        hi == SliceBound(b, Len(s))
    IN  IF lo >= hi THEN <<>> ELSE SubSeq(s, lo + 1, hi)

\* s[k] raises IndexError
IndexRaises(s, k) == k >= Len(s) \/ k < -Len(s)

\* s[k], where it does not raise
Index(s, k) == IF k < 0 THEN s[k + Len(s) + 1] ELSE s[k + 1]

\* s.find(sub) != -1
Contains(s, sub) ==
    \E k \in 0..(Len(s) - Len(sub)) : SubSeq(s, k + 1, k + Len(sub)) = sub

RECURSIVE ReplaceNewlines(_)
\* s.replace("\n", "\\n"): each newline becomes a backslash and an n
ReplaceNewlines(s) ==
    IF s = <<>> THEN <<>>
    ELSE (IF Head(s) = "\n" THEN <<"\\", "n">> ELSE <<Head(s)>>)
         \o ReplaceNewlines(Tail(s))

DigitChar(d) == <<"0", "1", "2", "3", "4", "5", "6", "7", "8", "9">>[d + 1]

RECURSIVE IntToStr(_)
\* "{}".format(n) of a non-negative int, and of the negative ones a
\* character offset can take
IntToStr(n) ==
    IF n < 0 THEN <<"-">> \o IntToStr(-n)
    ELSE IF n < 10 THEN <<DigitChar(n)>>
    ELSE IntToStr(n \div 10) \o <<DigitChar(n % 10)>>

-----------------------------------------------------------------------------
(* line_number_from_offset *)

RECURSIVE LineNumberWalkCountingBytes(_, _, _, _, _)
\* LineNumberWalk without line 129: the byte offset is used as a character index
LineNumberWalkCountingBytes(text, i, line_number, column, character_offset) ==
    IF ~(i < character_offset)
    THEN [raised |-> FALSE, line_number |-> line_number, column |-> column,
          character_offset |-> character_offset]
    ELSE IF IndexRaises(text, i)
    THEN [raised |-> TRUE, line_number |-> 0, column |-> 0,
          character_offset |-> 0]
    ELSE LET character == Index(text, i)
         IN  LineNumberWalkCountingBytes(
                 text, i + 1,
                 IF character = "\n" THEN line_number + 1 ELSE line_number,
                 IF character = "\n" THEN 0 ELSE column + 1,
                 character_offset)

RECURSIVE LineNumberWalkKeepingColumn(_, _, _, _, _)
\* LineNumberWalk without line 125: a newline does not reset the column
LineNumberWalkKeepingColumn(text, i, line_number, column, character_offset) ==
    IF ~(i < character_offset)
    THEN [raised |-> FALSE, line_number |-> line_number, column |-> column,
          character_offset |-> character_offset]
    ELSE IF IndexRaises(text, i)
    THEN [raised |-> TRUE, line_number |-> 0, column |-> 0,
          character_offset |-> 0]
    ELSE LET character == Index(text, i)
             character_byte_count == CharByteCount(character)
         IN  LineNumberWalkKeepingColumn(
                 text, i + 1,
                 IF character = "\n" THEN line_number + 1 ELSE line_number,
                 IF character = "\n" THEN column ELSE column + 1,
                 character_offset - (character_byte_count - 1))

RECURSIVE LineNumberWalk(_, _, _, _, _)
\* the while loop; file_string[i] raises IndexError past the end of the text
LineNumberWalk(text, i, line_number, column, character_offset) ==
    IF ~(i < character_offset)
    THEN [raised |-> FALSE, line_number |-> line_number, column |-> column,
          character_offset |-> character_offset]
    ELSE IF IndexRaises(text, i)
    THEN [raised |-> TRUE, line_number |-> 0, column |-> 0,
          character_offset |-> 0]
    ELSE LET character == Index(text, i)
             character_byte_count == CharByteCount(character)
         IN  LineNumberWalk(
                 text, i + 1,
                 IF character = "\n" THEN line_number + 1 ELSE line_number,
                 IF character = "\n" THEN 0 ELSE column + 1,
                 character_offset - (character_byte_count - 1))

line_number_from_offset(text, byte_offset) ==
    LineNumberWalk(text, 0, 1, 0, byte_offset)

-----------------------------------------------------------------------------
(* should_ignore_replacement *)

should_ignore_replacement(original_text, replacement_text) ==
    /\ StartsWith(original_text, <<"\n", " ", " ", " ", " ">>)
    /\ StartsWith(replacement_text, <<"\n", "\n">>)

-----------------------------------------------------------------------------
(* build_warning_message and build_warning_message_details *)

Quoted(text) == <<"\"">> \o text \o <<"\"">>

IncludeDirective == <<"#", "i", "n", "c", "l", "u", "d", "e">>

\* len("#include ")
IncludePrefixLength == Len(IncludeDirective \o <<" ">>)

\* whether build_warning_message evaluates file_string[replacement_offset]:
\* lines 138 and 145 when the length is 1, line 148 when the chain gets there
MessageReadsText(replacement_text, replacement_length) ==
    \/ replacement_length = 1
    \/ /\ replacement_text # <<>>
       /\ replacement_length # 0
       /\ ~(replacement_length = 2 /\ replacement_text = <<" ">>)

\* DeletionMessage testing the removed character for a newline, not a space
DeletionMessageTestingNewline(replacement_length, replacement_offset, text) ==
    IF replacement_length = 1
    THEN IF Index(text, replacement_offset) = "\n"
         THEN <<"remove space">>
         ELSE <<"remove character">>
    ELSE <<"remove next ">> \o IntToStr(replacement_length) \o <<" chars">>

\* the branch of an empty replacement text
DeletionMessage(replacement_length, replacement_offset, text) ==
    IF replacement_length = 1
    THEN IF Index(text, replacement_offset) = " "
         THEN <<"remove space">>
         ELSE <<"remove character">>
    ELSE <<"remove next ">> \o IntToStr(replacement_length) \o <<" chars">>

\* HeuristicMessage comparing the length of the replacement text, not of the
\* replaced range, with len("#include ")
HeuristicMessageMeasuringText(replacement_text, replacement_length, replacement_offset, text) ==
    IF replacement_length = 2 /\ replacement_text = <<" ">>
    THEN <<"remove a space">>
    ELSE IF Index(text, replacement_offset) = "\n" /\ replacement_length = 1
    THEN <<"remove a newline">>
    ELSE IF /\ Contains(replacement_text, IncludeDirective)
            /\ Len(replacement_text) > IncludePrefixLength
    THEN <<"alphabetize headers">>
    ELSE <<"replace next ">> \o IntToStr(replacement_length)
         \o <<" chars with ">> \o Quoted(replacement_text)

\* the last four branches of a non-empty replacement text
HeuristicMessage(replacement_text, replacement_length, replacement_offset, text) ==
    IF replacement_length = 2 /\ replacement_text = <<" ">>
    THEN <<"remove a space">>
    ELSE IF Index(text, replacement_offset) = "\n" /\ replacement_length = 1
    THEN <<"remove a newline">>
    ELSE IF /\ Contains(replacement_text, IncludeDirective)
            /\ replacement_length > IncludePrefixLength
    THEN <<"alphabetize headers">>
    ELSE <<"replace next ">> \o IntToStr(replacement_length)
         \o <<" chars with ">> \o Quoted(replacement_text)

\* ReplacementMessage without the branch of line 144
ReplacementMessageWithoutLengthOne(replacement_text, replacement_length, replacement_offset, text) ==
    IF replacement_length = 0
    THEN IF replacement_text = <<" ">>
         THEN <<"add space">>
         ELSE <<"add ">> \o Quoted(replacement_text)
    ELSE HeuristicMessage(replacement_text, replacement_length,
                          replacement_offset, text)

\* the branch of a non-empty replacement text
ReplacementMessage(replacement_text, replacement_length, replacement_offset, text) ==
    IF replacement_length = 0
    THEN IF replacement_text = <<" ">>
         THEN <<"add space">>
         ELSE <<"add ">> \o Quoted(replacement_text)
    ELSE IF replacement_length = 1
    THEN <<"replace ">>
         \o (IF Index(text, replacement_offset) = "\n"
             THEN <<"newline">> ELSE <<"char">>)
         \o <<" with ">> \o Quoted(replacement_text)
    ELSE HeuristicMessage(replacement_text, replacement_length,
                          replacement_offset, text)

build_warning_message(replacement_text, replacement_length, replacement_offset, text) ==
    IF /\ MessageReadsText(replacement_text, replacement_length)
       /\ IndexRaises(text, replacement_offset)
    THEN [raised |-> TRUE, value |-> <<>>]
    ELSE [raised |-> FALSE, value |->
            IF replacement_text = <<>>
            THEN DeletionMessage(replacement_length, replacement_offset, text)
            ELSE ReplacementMessage(replacement_text, replacement_length,
                                    replacement_offset, text)]

\* surrounding_character_count
SurroundingCharacterCount == 15

ArrowMarker == <<" ", " ", "U+27A1", "U+FE0F", " ", " ", "U+2026">>

build_warning_message_details(replacement_text, replacement_length, replacement_offset, text) ==
    LET surrounding_text_start ==
            Max(0, replacement_offset - SurroundingCharacterCount)
        surrounding_text_end ==
            Min(Len(text), replacement_offset + SurroundingCharacterCount)
        surrounding_text_with_replacement ==
            Slice(text, surrounding_text_start, replacement_offset)
            \o replacement_text
            \o Slice(text, replacement_offset + replacement_length,
                     surrounding_text_end + replacement_length)
    IN  ArrowMarker \o ReplaceNewlines(surrounding_text_with_replacement)

-----------------------------------------------------------------------------
(* run_clang_format_on_file: one iteration of its loop over the records.   *)

\* the header of a warning line, as str.format renders it
WarningHeader(filename, line_number, column) ==
    filename \o <<":">> \o IntToStr(line_number) \o <<":">> \o IntToStr(column)
    \o <<": warning: Style nit @ col ">> \o IntToStr(column) \o <<": ">>

\* the body of the for loop for one record: "raised" when a call raises
\* IndexError, "ignored" when the record is skipped, "printed" with the line
ProcessReplacement(filename, text, replacement) ==
    LET position == line_number_from_offset(text, replacement.offset)
        replacement_offset == position.character_offset
        original_text ==
            Slice(text, replacement_offset,
                  replacement_offset + replacement.length)
        replacement_text == ReplaceNewlines(replacement.text)
        warning_message ==
            build_warning_message(replacement_text, replacement.length,
                                  replacement_offset, text)
        warning_message_details ==
            build_warning_message_details(replacement_text, replacement.length,
                                          replacement_offset, text)
        nothing == [outcome |-> "raised", line |-> <<>>, line_number |-> 0,
                    column |-> 0, character_offset |-> 0, message |-> <<>>]
    IN  IF position.raised
        THEN nothing
        ELSE IF should_ignore_replacement(original_text, replacement.text)
        THEN [nothing EXCEPT !.outcome = "ignored"]
        ELSE IF warning_message.raised
        THEN nothing
        ELSE [outcome |-> "printed",
              line |-> WarningHeader(filename, position.line_number,
                                     position.column)
                       \o warning_message.value \o warning_message_details,
              line_number |-> position.line_number,
              column |-> position.column,
              character_offset |-> replacement_offset,
              message |-> warning_message.value]

RECURSIVE RunOnRecords(_, _, _)
\* the whole loop of run_clang_format_on_file: the lines it prints, and
\* whether it raises
RunOnRecords(filename, text, records) ==
    IF records = <<>>
    THEN [raised |-> FALSE, lines |-> <<>>]
    ELSE LET step == ProcessReplacement(filename, text, Head(records))
             rest == RunOnRecords(filename, text, Tail(records))
         IN  IF step.outcome = "raised"
             THEN [raised |-> TRUE, lines |-> <<>>]
             ELSE [raised |-> rest.raised,
                   lines |-> (IF step.outcome = "printed"
                              THEN <<step.line>> ELSE <<>>) \o rest.lines]

-----------------------------------------------------------------------------
(* Paths, the command line, git status. *)

\* the largest index of s that holds c, 0 when none does
LastIndexOf(s, c) ==
    LET hits == {j \in 1..Len(s) : s[j] = c}
    IN  IF hits = {} THEN 0 ELSE CHOOSE m \in hits : \A x \in hits : x <= m

\* os.path.join(a, b)
PathJoin(a, b) ==
    IF b # <<>> /\ b[1] = "/" THEN b
    ELSE IF a = <<>> \/ a[Len(a)] = "/" THEN a \o b
    ELSE a \o <<"/">> \o b

\* os.path.basename(path)
Basename(path) == SubSeq(path, LastIndexOf(path, "/") + 1, Len(path))

\* Path(directory).parent of an absolute path without a trailing slash
ParentPath(path) ==
    LET slash == LastIndexOf(path, "/")
    IN  IF slash <= 1 THEN <<"/">> ELSE SubSeq(path, 1, slash - 1)

\* os.path.splitext(file)[1]: from the last dot of the last component, the
\* leading dots of the component apart
SplitExt(file) ==
    LET base == Basename(file)
        dots == {j \in 1..Len(base) :
                    base[j] = "." /\ \E h \in 1..(j - 1) : base[h] # "."}
    IN  IF dots = {} THEN <<>>
        ELSE SubSeq(base, CHOOSE m \in dots : \A x \in dots : x <= m, Len(base))

SUPPORTED_FILE_EXTENSIONS ==
    { <<".", "h">>, <<".", "h", "p", "p">>, <<".", "c">>,
      <<".", "c", "p", "p">>, <<".", "m">>, <<".", "m", "m">> }

\* os.getcwd()
Cwd == <<"/", "w">>

ApplyFixesFlag == <<"--apply-fixes">>

\* lines 180 to 185
ShouldApplyFixes(args) == \E j \in 1..Len(args) : args[j] = ApplyFixesFlag

\* lines 181 to 193: args is sys.argv[1:], so the index is one less
DirectoryArgument(args) ==
    LET path_argument_index == IF ShouldApplyFixes(args) THEN 2 ELSE 1
    IN  IF Len(args) >= path_argument_index
        THEN LET path == args[path_argument_index]
             IN  IF StartsWith(path, <<"/">>) THEN path
                 ELSE PathJoin(Cwd, path)
        ELSE Cwd

RECURSIVE find_clang_format_file(_, _)
\* the directory found, <<>> for None
find_clang_format_file(dirs, directory) ==
    IF directory \in dirs THEN directory
    ELSE IF ParentPath(directory) = directory THEN <<>>
    ELSE find_clang_format_file(dirs, ParentPath(directory))

\* the status prefixes get_git_modified_files keeps
KeptStatuses ==
    { <<"A", " ", " ">>, <<"A", "M", " ">>, <<"M", " ", " ">>,
      <<" ", "M", " ">>, <<"M", "M", " ">>, <<"?", "?", " ">> }

RECURSIVE get_git_modified_files(_)
\* of the lines of git status --short
get_git_modified_files(lines) ==
    IF lines = <<>> THEN <<>>
    ELSE (IF \E prefix \in KeptStatuses : StartsWith(Head(lines), prefix)
          THEN <<SubSeq(Head(lines), 4, Len(Head(lines)))>> ELSE <<>>)
         \o get_git_modified_files(Tail(lines))

\* line 33
ModifiedFilesInDirectory(files, directory) ==
    SelectSeq(files, LAMBDA filename : Contains(filename, Basename(directory)))

\* None
None == <<"<None>">>

\* bool(value) of None, bytes or str
Truthy(value) == value # None /\ value # <<>>

\* subprocess.run(args, stdout=..., stderr=...): a stream that is not piped
\* is None in the CompletedProcess
SubprocessRun(result, stdout_piped, stderr_piped) ==
    [stdout |-> IF stdout_piped THEN result.stdout ELSE None,
     stderr |-> IF stderr_piped THEN result.stderr ELSE None]

-----------------------------------------------------------------------------
(* Inputs. *)

\* the characters of the enumerated texts: space, newline, tab, a letter,
\* and one character of each multi-byte UTF-8 width
Chars == {" ", "\n", "\t", "x", "U+00E9", "U+20AC", "U+1F600"}

\* every text over chars of at most n characters
Texts(chars, n) == UNION {[1..k -> chars] : k \in 0..n}

RECURSIVE ByteLength(_)
\* len(s.encode("utf-8")): the length clang-format counts
ByteLength(s) ==
    IF s = <<>> THEN 0 ELSE CharByteCount(Head(s)) + ByteLength(Tail(s))

\* the values of the variables a specification does not use
IdleRun ==
    /\ argv = <<>>
    /\ installed = TRUE
    /\ config_dirs = {}
    /\ disk = <<>>
    /\ modified_files = <<>>
    /\ file_index = 0
    /\ exit_status = -1
    /\ git_queried = FALSE
    /\ formatter_runs = <<>>

IdleFile ==
    /\ absolute_filename = <<>>
    /\ file_string = <<>>
    /\ replacements = <<>>
    /\ rep_index = 0
    /\ stdout = <<>>
    /\ reported = <<>>

NoCall == [none |-> TRUE]

-----------------------------------------------------------------------------
(* SpecPos: line_number_from_offset on its own, for every enumerated text  *)
(* and every byte offset up to one past its end.                           *)

PosArgs ==
    UNION {{[text |-> t, byte_offset |-> b] : b \in 0..(ByteLength(t) + 1)}
           : t \in Texts(Chars, MaxLen)}

InitPos ==
    /\ pc = "line_number_from_offset"
    /\ fn_args \in PosArgs
    /\ fn_result = NoCall
    /\ IdleRun
    /\ IdleFile

CallLineNumberFromOffset ==
    /\ pc = "line_number_from_offset"
    /\ fn_result' = line_number_from_offset(fn_args.text, fn_args.byte_offset)
    /\ pc' = "returned_position"
    /\ UNCHANGED <<fn_args, runVars, fileVars>>

NextPos == CallLineNumberFromOffset

SpecPos == InitPos /\ [][NextPos]_vars

-----------------------------------------------------------------------------
(* SpecMsg: build_warning_message on its own.                              *)

MsgChars == {" ", "\n", "x"}

HeadersText ==
    <<"#", "i", "n", "c", "l", "u", "d", "e", " ", "<", "a", ".", "h", ">", "\n",
      "#", "i", "n", "c", "l", "u", "d", "e", " ", "<", "b", ".", "h", ">", "\n">>

MsgTexts ==
    { <<>>, <<" ">>, <<" ", " ">>, <<"x">>, <<"\n", "\n">>,
      IncludeDirective, HeadersText, ReplaceNewlines(HeadersText) }

MsgArgs ==
    [replacement_text : MsgTexts,
     replacement_length : 0..MaxMsgLength,
     replacement_offset : 0..MaxMsgOffset,
     text : Texts(MsgChars, MaxLen)]

InitMsg ==
    /\ pc = "build_warning_message"
    /\ fn_args \in MsgArgs
    /\ fn_result = NoCall
    /\ IdleRun
    /\ IdleFile

CallBuildWarningMessage ==
    /\ pc = "build_warning_message"
    /\ fn_result' = build_warning_message(
                        fn_args.replacement_text, fn_args.replacement_length,
                        fn_args.replacement_offset, fn_args.text)
    /\ pc' = "returned_message"
    /\ UNCHANGED <<fn_args, runVars, fileVars>>

NextMsg == CallBuildWarningMessage

SpecMsg == InitMsg /\ [][NextMsg]_vars

-----------------------------------------------------------------------------
(* SpecFile: run_clang_format_on_file on one file.                         *)

FileChars == {" ", "\n", "U+20AC"}

\* the end-to-end text of the documentation: a blank line before an
\* indented line
BlankLineText ==
    <<"i", "n", "t", " ", "x", " ", "=", " ", "1", ";", "\n", "\n",
      " ", " ", " ", " ", "i", "n", "t", " ", "y", " ", "=", " ", "2", ";", "\n">>

FileTexts == Texts(FileChars, MaxFileLen) \cup {BlankLineText}

\* the edits clang-format proposes at an offset: (length, replacement text)
Edits ==
    { [length |-> 0, text |-> <<" ">>],
      [length |-> 1, text |-> <<>>],
      [length |-> 2, text |-> <<"\n", "\n">>] }

\* the records of the enumerated texts: every edit at every byte offset up
\* to one past the end; of the end-to-end text: the blank line and the end
RecordsOf(text) ==
    IF text = BlankLineText
    THEN { [offset |-> 11, length |-> 5, text |-> <<"\n", "\n">>],
           [offset |-> 10, length |-> 1, text |-> <<" ", " ">>],
           [offset |-> 26, length |-> 1, text |-> <<>>],
           [offset |-> 26, length |-> 3, text |-> <<>>],
           [offset |-> 28, length |-> 0, text |-> <<" ">>] }
    ELSE { [offset |-> o, length |-> e.length, text |-> e.text] :
              o \in 0..(ByteLength(text) + 1), e \in Edits }

\* clang-format reports the records of a file in ascending offset order
Ascending(records) ==
    \A j \in 1..(Len(records) - 1) : records[j].offset <= records[j + 1].offset

RecordSeqs(text) ==
    {records \in UNION {[1..k -> RecordsOf(text)] : k \in 0..MaxRecords} :
        Ascending(records)}

FileName == <<"/", "w", "/", "S", "/", "a", ".", "m">>

InitFile ==
    /\ pc = "run_clang_format_on_file"
    /\ absolute_filename = FileName
    /\ disk \in {[name \in {FileName} |-> t] : t \in FileTexts}
    /\ file_string = <<>>
    /\ replacements = <<>>
    /\ rep_index = 0
    /\ stdout = <<>>
    /\ reported = <<>>
    /\ formatter_runs = <<>>
    /\ argv = <<>>
    /\ installed = TRUE
    /\ config_dirs = {}
    /\ modified_files = <<>>
    /\ file_index = 0
    /\ exit_status = -1
    /\ git_queried = FALSE
    /\ fn_args = NoCall
    /\ fn_result = NoCall

\* lines 66 to 73: clang-format runs, its XML parses, the file is read
ReadReplacements ==
    /\ pc = "run_clang_format_on_file"
    /\ \E records \in RecordSeqs(disk[absolute_filename]) :
           replacements' = records
    /\ formatter_runs' = Append(formatter_runs,
                                [file |-> absolute_filename, mode |-> "check",
                                 failed |-> FALSE])
    /\ file_string' = disk[absolute_filename]
    /\ rep_index' = 1
    /\ pc' = "for_replacement"
    /\ UNCHANGED <<argv, installed, config_dirs, disk, modified_files,
                   file_index, exit_status, git_queried, absolute_filename,
                   stdout, reported, fnVars>>

\* line 69: ElementTree.fromstring raises ParseError on output that is no XML
ParseErrorRaised ==
    /\ pc = "run_clang_format_on_file"
    /\ formatter_runs' = Append(formatter_runs,
                                [file |-> absolute_filename, mode |-> "check",
                                 failed |-> TRUE])
    /\ pc' = "raised"
    /\ UNCHANGED <<argv, installed, config_dirs, disk, modified_files,
                   file_index, exit_status, git_queried, fileVars, fnVars>>

\* ForReplacement putting the new line before the lines already printed
ForReplacementPrepending ==
    /\ pc = "for_replacement"
    /\ rep_index <= Len(replacements)
    /\ LET step == ProcessReplacement(absolute_filename, file_string,
                                      replacements[rep_index])
       IN  /\ pc' = IF step.outcome = "raised" THEN "raised" ELSE pc
           /\ rep_index' = IF step.outcome = "raised"
                           THEN rep_index ELSE rep_index + 1
           /\ stdout' = IF step.outcome = "printed"
                        THEN <<step.line>> \o stdout ELSE stdout
           /\ reported' =
                  IF step.outcome = "printed"
                  THEN Append(reported,
                              [index |-> rep_index,
                               line_number |-> step.line_number,
                               column |-> step.column,
                               character_offset |-> step.character_offset,
                               message |-> step.message])
                  ELSE reported
    /\ UNCHANGED <<runVars, absolute_filename, file_string, replacements,
                   fnVars>>

\* lines 75 to 99: one iteration of the loop
ForReplacement ==
    /\ pc = "for_replacement"
    /\ rep_index <= Len(replacements)
    /\ LET step == ProcessReplacement(absolute_filename, file_string,
                                      replacements[rep_index])
       IN  /\ pc' = IF step.outcome = "raised" THEN "raised" ELSE pc
           /\ rep_index' = IF step.outcome = "raised"
                           THEN rep_index ELSE rep_index + 1
           /\ stdout' = IF step.outcome = "printed"
                        THEN Append(stdout, step.line) ELSE stdout
           /\ reported' =
                  IF step.outcome = "printed"
                  THEN Append(reported,
                              [index |-> rep_index,
                               line_number |-> step.line_number,
                               column |-> step.column,
                               character_offset |-> step.character_offset,
                               message |-> step.message])
                  ELSE reported
    /\ UNCHANGED <<runVars, absolute_filename, file_string, replacements,
                   fnVars>>

\* the loop ends and the function returns
ReturnFromFile ==
    /\ pc = "for_replacement"
    /\ rep_index > Len(replacements)
    /\ pc' = "returned_file"
    /\ UNCHANGED <<runVars, fileVars, fnVars>>

NextFile ==
    \/ ReadReplacements
    \/ ParseErrorRaised
    \/ ForReplacement
    \/ ReturnFromFile

SpecFile == InitFile /\ [][NextFile]_vars

-----------------------------------------------------------------------------
(* Spec: the script from its command line to its exit.                     *)

DirS == <<"S">>

\* the command lines: sys.argv[1:]
CommandLines ==
    { <<>>, <<DirS>>, <<ApplyFixesFlag>>, <<ApplyFixesFlag, DirS>>,
      <<<<"/">>>> }

\* where a .clang-format file may be
ConfigPlacements == { {}, {<<"/", "w">>}, {<<"/", "w", "/", "S">>}, {<<"/">>} }

FormattedText == <<"x", ";", "\n">>

\* the files of the working tree
DiskInit ==
    (<<"/", "w", "/", "S", "/", "a", ".", "m">> :> BlankLineText)
    @@ (<<"/", "w", "/", "S", "/", "b", ".", "c", "p", "p">>
            :> <<"x", "U+20AC", " ", "\n">>)
    @@ (<<"/", "w", "/", "S", "/", "n", ".", "t", "x", "t">> :> <<"x">>)
    @@ (<<"/", "w", "/", "T", "/", "c", ".", "c">> :> <<" ", "x">>)
    @@ (<<"/", "w", "/", "x", "S", ".", "h">> :> <<"\n", " ", "x">>)

\* the lines git status --short may print
GitLines ==
    { <<"A", " ", " ", "S", "/", "a", ".", "m">>,
      <<" ", "M", " ", "S", "/", "b", ".", "c", "p", "p">>,
      <<"?", "?", " ", "S", "/", "n", ".", "t", "x", "t">>,
      <<" ", "D", " ", "S", "/", "d", ".", "m">>,
      <<"M", " ", " ", "T", "/", "c", ".", "c">>,
      <<"M", "M", " ", "x", "S", ".", "h">> }

\* git status lists a file once
GitOutputs ==
    {lines \in UNION {[1..k -> GitLines] : k \in 0..MaxGitLines} :
        \A i, j \in 1..Len(lines) : i # j => lines[i] # lines[j]}

\* what clang-format -output-replacements-xml reports for a text: nothing,
\* an edit of its first character, or a record past its end
FormatterReports(text) ==
    { <<>>,
      <<[offset |-> 0, length |-> 1, text |-> <<>>]>>,
      <<[offset |-> ByteLength(text) + 1, length |-> 0, text |-> <<" ">>]>> }

\* what clang-format -style=file writes for a text: the formatted text, or
\* nothing on stdout and a message on stderr when it fails
FormatterResults(text) ==
    { [stdout |-> text, stderr |-> <<>>, returncode |-> 0],
      [stdout |-> FormattedText, stderr |-> <<>>, returncode |-> 0],
      [stdout |-> <<>>, stderr |-> <<"error: ">>, returncode |-> 1] }

NotInstalledMessage ==
    <<"Error: clang-format is not installed. Please install clang-format">>

NoConfigMessage ==
    <<"Error: No .clang-format file found. Please generate one">>

\* the status of exit(code)
ExitStatus(code) == code % 256

\* the status of a process that ends with an uncaught exception
UncaughtStatus == 1

Init ==
    /\ pc = "run_clang_format"
    /\ argv \in CommandLines
    /\ installed \in BOOLEAN
    /\ config_dirs \in ConfigPlacements
    /\ disk = DiskInit
    /\ modified_files = <<>>
    /\ file_index = 0
    /\ stdout = <<>>
    /\ exit_status = -1
    /\ git_queried = FALSE
    /\ formatter_runs = <<>>
    /\ absolute_filename = <<>>
    /\ file_string = <<>>
    /\ replacements = <<>>
    /\ rep_index = 0
    /\ reported = <<>>
    /\ fn_args = NoCall
    /\ fn_result = NoCall

runIdle == <<absolute_filename, file_string, replacements, rep_index, reported,
             fn_args, fn_result, argv, installed, config_dirs>>

\* CheckEnvironment without lines 28 to 30: the .clang-format file is not
\* looked for
CheckEnvironmentWithoutConfig ==
    /\ pc = "run_clang_format"
    /\ IF ~installed
       THEN /\ stdout' = Append(stdout, NotInstalledMessage)
            /\ exit_status' = ExitStatus(-1)
            /\ pc' = "exited"
       ELSE /\ pc' = "git_status"
            /\ UNCHANGED <<stdout, exit_status>>
    /\ UNCHANGED <<runIdle, disk, modified_files, file_index, git_queried,
                   formatter_runs>>

\* lines 24 to 30
CheckEnvironment ==
    /\ pc = "run_clang_format"
    /\ IF ~installed
       THEN /\ stdout' = Append(stdout, NotInstalledMessage)
            /\ exit_status' = ExitStatus(-1)
            /\ pc' = "exited"
       ELSE IF find_clang_format_file(config_dirs, DirectoryArgument(argv)) = <<>>
       THEN /\ stdout' = Append(stdout, NoConfigMessage)
            /\ exit_status' = ExitStatus(-1)
            /\ pc' = "exited"
       ELSE /\ pc' = "git_status"
            /\ UNCHANGED <<stdout, exit_status>>
    /\ UNCHANGED <<runIdle, disk, modified_files, file_index, git_queried,
                   formatter_runs>>

\* lines 32 and 33, with get_git_modified_files
GitStatus ==
    /\ pc = "git_status"
    /\ \E lines \in GitOutputs :
           modified_files' =
               ModifiedFilesInDirectory(get_git_modified_files(lines),
                                        DirectoryArgument(argv))
    /\ git_queried' = TRUE
    /\ file_index' = 1
    /\ pc' = "for_file"
    /\ UNCHANGED <<runIdle, disk, stdout, exit_status, formatter_runs>>

\* line 170: check_output raises CalledProcessError when git fails
GitStatusFails ==
    /\ pc = "git_status"
    /\ git_queried' = TRUE
    /\ exit_status' = UncaughtStatus
    /\ pc' = "raised"
    /\ UNCHANGED <<runIdle, disk, modified_files, file_index, stdout,
                   formatter_runs>>

\* line 36
AbsolutePath(file) == PathJoin(Cwd, file)

CurrentFile == modified_files[file_index]

\* lines 35 to 38: a file whose extension is not supported
SkipFile ==
    /\ pc = "for_file"
    /\ file_index <= Len(modified_files)
    /\ SplitExt(CurrentFile) \notin SUPPORTED_FILE_EXTENSIONS
    /\ file_index' = file_index + 1
    /\ UNCHANGED <<runIdle, pc, disk, modified_files, stdout, exit_status,
                   git_queried, formatter_runs>>

\* lines 41 and 42: run_clang_format_on_file on the file
CheckFile ==
    /\ pc = "for_file"
    /\ file_index <= Len(modified_files)
    /\ SplitExt(CurrentFile) \in SUPPORTED_FILE_EXTENSIONS
    /\ ~ShouldApplyFixes(argv)
    /\ \E records \in FormatterReports(disk[AbsolutePath(CurrentFile)]) :
           LET run == RunOnRecords(AbsolutePath(CurrentFile),
                                   disk[AbsolutePath(CurrentFile)], records)
           IN  /\ stdout' = stdout \o run.lines
               /\ pc' = IF run.raised THEN "raised" ELSE pc
               /\ exit_status' = IF run.raised THEN UncaughtStatus
                                 ELSE exit_status
               /\ file_index' = IF run.raised THEN file_index
                                ELSE file_index + 1
    /\ formatter_runs' = Append(formatter_runs,
                                [file |-> AbsolutePath(CurrentFile),
                                 mode |-> "check", failed |-> FALSE])
    /\ UNCHANGED <<runIdle, disk, modified_files, git_queried>>

\* lines 41 and 42, when clang-format's output is no XML: line 69 raises
\* ParseError
CheckFileParseError ==
    /\ pc = "for_file"
    /\ file_index <= Len(modified_files)
    /\ SplitExt(CurrentFile) \in SUPPORTED_FILE_EXTENSIONS
    /\ ~ShouldApplyFixes(argv)
    /\ formatter_runs' = Append(formatter_runs,
                                [file |-> AbsolutePath(CurrentFile),
                                 mode |-> "check", failed |-> TRUE])
    /\ exit_status' = UncaughtStatus
    /\ pc' = "raised"
    /\ UNCHANGED <<runIdle, disk, modified_files, file_index, stdout,
                   git_queried>>

\* apply_clang_format_fixes_on_file: what it prints and the files after it
apply_clang_format_fixes_on_file(filename, result, files) ==
    LET process_result == SubprocessRun(result, TRUE, FALSE)
    IN  IF Truthy(process_result.stderr)
        THEN [printed |-> <<"Error applying fixes to ">> \o filename
                          \o <<": ">> \o process_result.stderr,
              files |-> files]
        ELSE [printed |-> <<"Applying fixes to ">> \o filename,
              files |-> (filename :> process_result.stdout) @@ files]

\* lines 39 and 40
ApplyFixesOnFile ==
    /\ pc = "for_file"
    /\ file_index <= Len(modified_files)
    /\ SplitExt(CurrentFile) \in SUPPORTED_FILE_EXTENSIONS
    /\ ShouldApplyFixes(argv)
    /\ \E result \in FormatterResults(disk[AbsolutePath(CurrentFile)]) :
           LET applied == apply_clang_format_fixes_on_file(
                              AbsolutePath(CurrentFile), result, disk)
           IN  /\ stdout' = Append(stdout, applied.printed)
               /\ disk' = applied.files
               /\ formatter_runs' =
                      Append(formatter_runs,
                             [file |-> AbsolutePath(CurrentFile),
                              mode |-> "apply",
                              failed |-> (result.returncode # 0
                                          \/ result.stderr # <<>>)])
    /\ file_index' = file_index + 1
    /\ UNCHANGED <<runIdle, pc, modified_files, exit_status, git_queried>>

\* the loop ends, run_clang_format returns and the script ends
Finish ==
    /\ pc = "for_file"
    /\ file_index > Len(modified_files)
    /\ exit_status' = 0
    /\ pc' = "done"
    /\ UNCHANGED <<runIdle, disk, modified_files, file_index, stdout,
                   git_queried, formatter_runs>>

Next ==
    \/ CheckEnvironment
    \/ GitStatus
    \/ GitStatusFails
    \/ SkipFile
    \/ CheckFile
    \/ CheckFileParseError
    \/ ApplyFixesOnFile
    \/ Finish

Spec == Init /\ [][Next]_vars

-----------------------------------------------------------------------------
(* Claims about line_number_from_offset, under SpecPos. *)

SetMax(S) == CHOOSE m \in S : \A x \in S : x <= m

\* the characters of text[1..k] after its last newline
CharsSinceNewline(text, k) ==
    k - SetMax({0} \cup {j \in 1..k : text[j] = "\n"})

\* C2: for a byte offset N on a character boundary, the returned character
\* index k is the one whose first k characters are N bytes wide, and the
\* column counts characters; right after a single 3-byte character k = N-2.
C2_ByteOffsetMapsToCharacterIndex ==
    pc = "returned_position" =>
        \A k \in 0..Len(fn_args.text) :
            ByteLength(SubSeq(fn_args.text, 1, k)) = fn_args.byte_offset =>
                /\ ~fn_result.raised
                /\ fn_result.character_offset = k
                /\ fn_result.column = CharsSinceNewline(fn_args.text, k)
                /\ (/\ k >= 1
                    /\ fn_args.text[k] = "U+20AC"
                    /\ \A j \in 1..(k - 1) : fn_args.text[j] \in {" ", "\n", "\t", "x"})
                   => fn_result.character_offset = fn_args.byte_offset - 2

\* a call at the byte offset right after "x", euro sign: byte 4, character 2
C2_Witness ==
    /\ pc = "returned_position"
    /\ fn_args.text = <<"x", "U+20AC", "x">>
    /\ fn_args.byte_offset = 4
    /\ fn_result.character_offset = 2
    /\ fn_result.column = 2

-----------------------------------------------------------------------------
(* Claims about build_warning_message, under SpecMsg. *)

MsgReturned == pc = "returned_message" /\ ~fn_result.raised

\* C5: rules 1 to 3: an empty replacement text gives "remove space",
\* "remove character" or "remove next {length} chars"; a non-empty one gives
\* "add space" or add "{text}" at length 0, and replace newline/char with
\* "{text}" at length 1.
C5_RulesOneToThree ==
    MsgReturned =>
        LET t == fn_args.replacement_text
            n == fn_args.replacement_length
            c == Index(fn_args.text, fn_args.replacement_offset)
            m == fn_result.value
        IN  /\ (t = <<>> /\ n = 1 /\ c = " ") => m = <<"remove space">>
            /\ (t = <<>> /\ n = 1 /\ c # " ") => m = <<"remove character">>
            /\ (t = <<>> /\ n # 1) =>
                   m = <<"remove next ">> \o IntToStr(n) \o <<" chars">>
            /\ (t = <<" ">> /\ n = 0) => m = <<"add space">>
            /\ (t # <<>> /\ t # <<" ">> /\ n = 0) =>
                   m = <<"add ", "\"">> \o t \o <<"\"">>
            /\ (t # <<>> /\ n = 1 /\ c = "\n") =>
                   m = <<"replace ", "newline", " with ", "\"">> \o t \o <<"\"">>
            /\ (t # <<>> /\ n = 1 /\ c # "\n") =>
                   m = <<"replace ", "char", " with ", "\"">> \o t \o <<"\"">>

\* a newline replaced by two spaces
C5_Witness ==
    /\ MsgReturned
    /\ fn_args.replacement_text = <<" ", " ">>
    /\ fn_args.replacement_length = 1
    /\ Index(fn_args.text, fn_args.replacement_offset) = "\n"
    /\ fn_result.value = <<"replace ", "newline", " with ", "\"", " ", " ", "\"">>

\* a record rules 1 to 5 do not match
PastRuleFive ==
    /\ MsgReturned
    /\ fn_args.replacement_text # <<>>
    /\ fn_args.replacement_length >= 2
    /\ ~(fn_args.replacement_length = 2 /\ fn_args.replacement_text = <<" ">>)

\* C6 as claimed: past rules 1 to 5, a replacement text that contains
\* "#include" and is longer than 9 characters gives "alphabetize headers",
\* whatever the length of the replaced range.
C6_AsClaimed ==
    (/\ PastRuleFive
     /\ Contains(fn_args.replacement_text, IncludeDirective)
     /\ Len(fn_args.replacement_text) > 9)
    => fn_result.value = <<"alphabetize headers">>

\* C6 as amended: past rules 1 to 5, a replacement text that contains
\* "#include" gives "alphabetize headers" when the replaced range is longer
\* than 9, whatever the length of the replacement text, and the fallback
\* message when the replaced range is 9 or shorter.
C6_AlphabetizeByReplacedLength ==
    (/\ PastRuleFive
     /\ Contains(fn_args.replacement_text, IncludeDirective))
    => IF fn_args.replacement_length > 9
       THEN fn_result.value = <<"alphabetize headers">>
       ELSE fn_result.value =
                <<"replace next ">> \o IntToStr(fn_args.replacement_length)
                \o <<" chars with ", "\"">> \o fn_args.replacement_text
                \o <<"\"">>

\* the bare directive, 8 characters, replacing a range of 10
C6_Witness ==
    /\ MsgReturned
    /\ fn_args.replacement_text = IncludeDirective
    /\ fn_args.replacement_length = 10
    /\ fn_result.value = <<"alphabetize headers">>

\* C10: no input gives "remove a newline": a length-1 record at a newline gets
\* "remove character" (empty replacement) or replace newline with "{text}".
C10_RemoveANewlineUnreachable ==
    pc = "returned_message" =>
        /\ fn_result.value # <<"remove a newline">>
        /\ (/\ ~fn_result.raised
            /\ fn_args.replacement_length = 1
            /\ Index(fn_args.text, fn_args.replacement_offset) = "\n")
           => IF fn_args.replacement_text = <<>>
              THEN fn_result.value = <<"remove character">>
              ELSE fn_result.value =
                       <<"replace ", "newline", " with ", "\"">>
                       \o fn_args.replacement_text \o <<"\"">>

\* a length-1 record at a newline with a non-empty replacement text
C10_Witness ==
    /\ MsgReturned
    /\ fn_args.replacement_length = 1
    /\ Index(fn_args.text, fn_args.replacement_offset) = "\n"
    /\ fn_args.replacement_text = <<"x">>

-----------------------------------------------------------------------------
(* Claims about run_clang_format_on_file, under SpecFile. *)

RECURSIVE EncodeUtf8(_)
\* text.encode("utf-8"), a byte after the first of a character written "cont"
EncodeUtf8(text) ==
    IF text = <<>> THEN <<>>
    ELSE <<Head(text)>>
         \o [j \in 1..(CharByteCount(Head(text)) - 1) |-> "cont"]
         \o EncodeUtf8(Tail(text))

\* 1 + the newlines among the first n bytes
LineAtByte(bytes, n) == 1 + Cardinality({j \in 1..n : bytes[j] = "\n"})

\* the characters that start among the first n bytes, after the last newline
ColumnAtByte(bytes, n) ==
    LET last_newline == SetMax({0} \cup {j \in 1..n : bytes[j] = "\n"})
    IN  Cardinality({j \in (last_newline + 1)..n : bytes[j] # "cont"})

InLoop == pc \in {"for_replacement", "returned_file", "raised"}

\* C1: each printed warning carries the line and column of its record's byte
\* offset: the line is 1 + the newlines before the offset, the column the
\* characters between the last such newline (or the start) and the offset.
C1_ReportedPositionIsAtByteOffset ==
    InLoop =>
        \A e \in 1..Len(reported) :
            LET record == replacements[reported[e].index]
                bytes == EncodeUtf8(file_string)
                line == LineAtByte(bytes, record.offset)
                column == ColumnAtByte(bytes, record.offset)
            IN  /\ record.offset <= Len(bytes)
                /\ reported[e].line_number = line
                /\ reported[e].column = column
                /\ StartsWith(stdout[e],
                              absolute_filename \o <<":">> \o IntToStr(line)
                              \o <<":">> \o IntToStr(column)
                              \o <<": warning: Style nit @ col ">>
                              \o IntToStr(column) \o <<": ">>)

\* a warning at byte 4 of newline, euro sign: line 2, column 1
C1_Witness ==
    /\ pc = "returned_file"
    /\ file_string = <<"\n", "U+20AC">>
    /\ Len(reported) = 1
    /\ replacements[reported[1].index].offset = 4
    /\ reported[1].line_number = 2
    /\ reported[1].column = 1

\* the records the loop has gone past without raising
Handled == 1..(rep_index - 1)

Printed(j) == \E e \in 1..Len(reported) : reported[e].index = j

\* the bytes a record replaces
OriginalBytes(record) ==
    LET bytes == EncodeUtf8(file_string)
    IN  SubSeq(bytes, record.offset + 1,
               Min(record.offset + record.length, Len(bytes)))

\* C3 as claimed: no warning for a record whose original text begins with a
\* newline followed by one or more spaces or tabs and whose replacement text
\* begins with two newlines.
C3_AsClaimed ==
    InLoop =>
        \A j \in Handled :
            LET record == replacements[j]
                original == OriginalBytes(record)
            IN  (/\ Len(original) >= 2
                 /\ original[1] = "\n"
                 /\ original[2] \in {" ", "\t"}
                 /\ StartsWith(record.text, <<"\n", "\n">>))
                => ~Printed(j)

\* the record a run over it alone suppresses
Suppressed(record) ==
    LET bytes == EncodeUtf8(file_string)
    IN  /\ record.offset + 5 <= Len(bytes)
        /\ SubSeq(bytes, record.offset + 1, record.offset + 5)
               = <<"\n", " ", " ", " ", " ">>
        /\ record.length >= 5
        /\ StartsWith(record.text, <<"\n", "\n">>)

\* a record clang-format can report for the text: on a character boundary,
\* its range inside the text
ValidRecord(record) ==
    /\ \E k \in 0..Len(file_string) :
           ByteLength(SubSeq(file_string, 1, k)) = record.offset
    /\ record.offset + record.length <= ByteLength(file_string)

\* C4: one line per handled record that is not suppressed and none for a
\* suppressed one, in the order of the records, each line the one its record
\* gives on its own; a run that returns has handled every record, and the
\* loop stops early only by raising on a record that is not valid.
C4_OneLinePerRecordInOrder ==
    InLoop =>
        /\ Len(stdout) = Len(reported)
        /\ \A e \in 1..Len(reported) : reported[e].index \in Handled
        /\ \A e, f \in 1..Len(reported) :
               e < f => reported[e].index < reported[f].index
        /\ \A j \in Handled : Printed(j) <=> ~Suppressed(replacements[j])
        /\ \A e \in 1..Len(reported) :
               stdout[e] = ProcessReplacement(
                               absolute_filename, file_string,
                               replacements[reported[e].index]).line
        /\ pc = "returned_file" => rep_index = Len(replacements) + 1
        /\ (pc = "raised" /\ rep_index >= 1) =>
               ~ValidRecord(replacements[rep_index])

\* the end-to-end text: the newline before the blank line is reported, the
\* blank line's record is suppressed
C4_Witness ==
    /\ pc = "returned_file"
    /\ file_string = BlankLineText
    /\ replacements = <<[offset |-> 10, length |-> 1, text |-> <<" ", " ">>],
                        [offset |-> 11, length |-> 5, text |-> <<"\n", "\n">>]>>
    /\ Len(stdout) = 1
    /\ reported[1].index = 1

OutOfRange(record) ==
    \/ record.offset > ByteLength(file_string)
    \/ record.offset + record.length > ByteLength(file_string)

\* C7 as claimed: a record whose offset, or offset plus length, is outside
\* the text makes the run raise: the loop never goes past it and never
\* prints a warning for it.
C7_AsClaimed ==
    InLoop =>
        /\ \A j \in Handled : ~OutOfRange(replacements[j])
        /\ \A e \in 1..Len(reported) :
               ~OutOfRange(replacements[reported[e].index])

-----------------------------------------------------------------------------
(* Claims about the whole script, under Spec. *)

\* the directory of the command line
TargetDirectory ==
    IF argv = <<>> \/ argv = <<ApplyFixesFlag>> THEN <<"/", "w">>
    ELSE IF argv = <<<<"/">>>> THEN <<"/">>
    ELSE <<"/", "w", "/", "S">>

\* d is the directory or one of its ancestors
AtOrAbove(d, directory) ==
    \/ d = directory
    \/ d = <<"/">>
    \/ StartsWith(directory, d \o <<"/">>)

EnvironmentMissing ==
    \/ ~installed
    \/ \A d \in config_dirs : ~AtOrAbove(d, TargetDirectory)

\* the run has ended: it returned, it exited, or an exception ended it
Ended == pc \in {"done", "exited", "raised"}

\* with the tool or the configuration missing, the run prints its message and
\* exits with status 255 before git status is queried and before any file is
\* checked or rewritten
MissingEnvironmentExitsFirst ==
    EnvironmentMissing =>
        /\ pc \in {"run_clang_format", "exited"}
        /\ ~git_queried
        /\ formatter_runs = <<>>
        /\ disk = DiskInit
        /\ pc = "exited" =>
               /\ exit_status = 255
               /\ stdout = <<IF installed THEN NoConfigMessage
                             ELSE NotInstalledMessage>>

\* C8 as claimed: with clang-format not installed, or no .clang-format file
\* in the target directory or above it, the run prints a message and exits
\* with a non-zero status before git status is queried and before any file is
\* checked or rewritten; with both present the run ends with status 0.
C8_AsClaimed ==
    /\ MissingEnvironmentExitsFirst
    /\ (~EnvironmentMissing /\ Ended) => exit_status = 0

\* C8 as amended: the same, but with both present the run ends with status 0,
\* whatever it printed, when it reaches its end, and with status 1 when an
\* uncaught exception ends it (git status fails, a record raises).
C8_EnvironmentCheckedFirst ==
    /\ MissingEnvironmentExitsFirst
    /\ ~EnvironmentMissing =>
           /\ pc # "exited"
           /\ pc = "done" => exit_status = 0
           /\ pc = "raised" => exit_status = 1
           /\ ~Ended => exit_status = -1

\* both are present, a warning was printed, and the run ended with status 0
C8_Witness ==
    /\ pc = "done"
    /\ ~EnvironmentMissing
    /\ exit_status = 0
    /\ \E l \in 1..Len(stdout) :
           Contains(stdout[l], <<": warning: Style nit @ col ">>)

\* C9 as claimed: a formatter run in apply-fixes mode that failed leaves the
\* file unchanged and prints an error message.
C9_AsClaimed ==
    \A r \in 1..Len(formatter_runs) :
        (formatter_runs[r].mode = "apply" /\ formatter_runs[r].failed) =>
            /\ disk[formatter_runs[r].file] = DiskInit[formatter_runs[r].file]
            /\ \E l \in 1..Len(stdout) :
                   StartsWith(stdout[l], <<"Error applying fixes to ">>
                                         \o formatter_runs[r].file)

====
